---- MODULE Spec2Model ----
(***************************************************************************)
(* tiny-agent: the tool-calling loop of src/index.ts (runWithTools, runTool *)
(* and the prompt cycle of main) over the tool library of src/tools.ts.     *)
(*                                                                          *)
(* JavaScript strings are TLA+ strings (Len, SubSeq and \o act on them).    *)
(* A JavaScript value is a record [t, s, m]: t its type tag, s its text     *)
(* (strings and numbers), m its members in insertion order (objects).       *)
(***************************************************************************)
EXTENDS Integers, Sequences, FiniteSets, TLC

VARIABLES
    pc,           \* where the process is suspended: "ask", "AwaitingModel", "DispatchingTools"
    prompts,      \* number of input lines main has read so far
    fs,           \* the filesystem: [dirs, files]
    messages,     \* runWithTools: the Conversation
    i,            \* runWithTools: the round counter of the for loop
    response,     \* runWithTools: content blocks of the last response
    toolUses,     \* runWithTools: the tool_use blocks of the last response
    toolResults,  \* runWithTools: the tool results of the round so far
    cur,          \* index in toolUses of the tool call in progress (0: none)
    requests,     \* the Conversations sent to the completion service for this prompt
    responses,    \* the responses received for this prompt
    dispatched,   \* the tool_use blocks runTool was called with, this prompt
    toolLogs,     \* main: the ToolLogEntry list of this prompt cycle
    stdout,       \* the chunks written to process.stdout in this prompt cycle
    stderr,       \* the chunks written to process.stderr in this prompt cycle
    prompt,       \* main: the input line passed to runWithTools
    outcome,      \* how the last runWithTools call ended
    result,       \* what it returned, or the message of what it threw
    errorSite,    \* the place that threw it ("" when it returned)
    calls         \* the tool library operations invoked in this prompt cycle

vars == <<pc, prompts, fs, messages, i, response, toolUses, toolResults, cur,
          requests, responses, dispatched, toolLogs, stdout, stderr, prompt, outcome,
          result, errorSite, calls>>

(***************************************************************************)
(* Bounds of the model and constants of the program.                       *)
(***************************************************************************)
MaxPrompts == 2     \* input lines read by main before the model stops
MaxRounds == 6      \* for (let i = 0; i < 6; i += 1)
Columns == 80       \* process.stdout.columns || 80

(***************************************************************************)
(* Strings.                                                                *)
(***************************************************************************)
CharAt(s, n) == SubSeq(s, n, n)

Slice(s, from, to) == SubSeq(s, from + 1, to)      \* s.slice(from, to), 0-based

IsSpace(c) == c \in {" ", "\t", "\n", "\r"}

\* the position of the first character at or after n that is no white space
RECURSIVE SkipSpace(_, _)
SkipSpace(s, n) == IF n <= Len(s) /\ IsSpace(CharAt(s, n)) THEN SkipSpace(s, n + 1) ELSE n

\* the position of the last character at or before n that is no white space
RECURSIVE SkipSpaceBack(_, _)
SkipSpaceBack(s, n) == IF n >= 1 /\ IsSpace(CharAt(s, n)) THEN SkipSpaceBack(s, n - 1) ELSE n

\* input.trim()
Trim(s) == SubSeq(s, SkipSpace(s, 1), SkipSpaceBack(s, Len(s)))

RECURSIVE Repeat(_, _)
Repeat(s, n) == IF n <= 0 THEN "" ELSE s \o Repeat(s, n - 1)

Max(a, b) == IF a >= b THEN a ELSE b

\* content.indexOf(needle, from): the 0-based index of the first occurrence
\* at or after from, -1 when there is none
RECURSIVE IndexFrom(_, _, _)
IndexFrom(s, needle, from) ==
    IF from + Len(needle) > Len(s) THEN -1
    ELSE IF SubSeq(s, from + 1, from + Len(needle)) = needle THEN from
    ELSE IndexFrom(s, needle, from + 1)

IndexOf(s, needle) == IndexFrom(s, needle, 0)

\* the pieces of s between line feeds, from the 0-based position from on
RECURSIVE SplitFrom(_, _)
SplitFrom(s, from) ==
    IF IndexFrom(s, "\n", from) = -1 THEN <<Slice(s, from, Len(s))>>
    ELSE <<Slice(s, from, IndexFrom(s, "\n", from))>>
         \o SplitFrom(s, IndexFrom(s, "\n", from) + 1)

\* content.split("\n")
SplitLines(s) == SplitFrom(s, 0)

RECURSIVE JoinFrom(_, _, _)
JoinFrom(parts, sep, n) ==
    IF n > Len(parts) THEN ""
    ELSE IF n = Len(parts) THEN parts[n]
    ELSE parts[n] \o sep \o JoinFrom(parts, sep, n + 1)

\* array.join(sep)
Join(parts, sep) == JoinFrom(parts, sep, 1)

\* array.filter(keep)
Filter(seq, Keep(_)) == SelectSeq(seq, Keep)

Digit(n) == CharAt("0123456789", n + 1)

RECURSIVE NumberToString(_)
NumberToString(n) ==
    IF n < 10 THEN Digit(n) ELSE NumberToString(n \div 10) \o Digit(n % 10)

(***************************************************************************)
(* Text on disk. A JavaScript string is a sequence of UTF-16 code units    *)
(* and a file a sequence of bytes. In the strings of the model "^" stands  *)
(* for an unpaired surrogate code unit (U+D800) and "?" for U+FFFD         *)
(* REPLACEMENT CHARACTER; in a file "^" stands for bytes that are no       *)
(* UTF-8 and every other character for its UTF-8 bytes.                    *)
(***************************************************************************)
\* the "utf8" encoding of fs.writeFile: an unpaired surrogate has no UTF-8
\* form and is written as U+FFFD
RECURSIVE Utf8Encode(_)
Utf8Encode(text) ==
    IF Len(text) = 0 THEN ""
    ELSE (IF CharAt(text, 1) = "^" THEN "?" ELSE CharAt(text, 1))
         \o Utf8Encode(SubSeq(text, 2, Len(text)))

\* the "utf8" decoding of fs.readFile: bytes that are no UTF-8 are read as
\* U+FFFD
RECURSIVE Utf8Decode(_)
Utf8Decode(bytes) ==
    IF Len(bytes) = 0 THEN ""
    ELSE (IF CharAt(bytes, 1) = "^" THEN "?" ELSE CharAt(bytes, 1))
         \o Utf8Decode(SubSeq(bytes, 2, Len(bytes)))

(***************************************************************************)
(* JavaScript values and JSON.stringify.                                   *)
(***************************************************************************)
Str(s) == [t |-> "string", s |-> s, m |-> <<>>]
Num(n) == [t |-> "number", s |-> NumberToString(n), m |-> <<>>]
Obj(members) == [t |-> "object", s |-> "", m |-> members]
Arr(items) == [t |-> "array", s |-> "", m |-> items]
Null == [t |-> "null", s |-> "", m |-> <<>>]
Undefined == [t |-> "undefined", s |-> "", m |-> <<>>]
Member(k, v) == [k |-> k, v |-> v]

\* input.key: the member's value, undefined when the object has no such key
Get(obj, key) ==
    IF obj.t = "object" /\ \E n \in 1..Len(obj.m) : obj.m[n].k = key
    THEN obj.m[CHOOSE n \in 1..Len(obj.m) : obj.m[n].k = key].v
    ELSE Undefined

EscapeChar(c) ==
    CASE c = "\"" -> "\\\""
      [] c = "\\" -> "\\\\"
      [] c = "\n" -> "\\n"
      [] c = "\t" -> "\\t"
      [] c = "\r" -> "\\r"
      [] OTHER -> c

RECURSIVE EscapeFrom(_, _)
EscapeFrom(s, n) == IF n > Len(s) THEN "" ELSE EscapeChar(CharAt(s, n)) \o EscapeFrom(s, n + 1)

\* a string as JSON text
Quote(s) == "\"" \o EscapeFrom(s, 1) \o "\""

\* JSON.stringify(value, null, gap): gap = 0 is the compact form,
\* indent is the current indentation
RECURSIVE Stringify(_, _, _)
Stringify(v, gap, indent) ==
    LET inner == indent \o Repeat(" ", gap)
        open == IF gap = 0 THEN "" ELSE "\n" \o inner
        sep == IF gap = 0 THEN "," ELSE ",\n" \o inner
        close == IF gap = 0 THEN "" ELSE "\n" \o indent
        colon == IF gap = 0 THEN ":" ELSE ": "
        \* members holding undefined are left out of an object
        kept == Filter(v.m, LAMBDA mem : mem.v.t # "undefined")
    IN  CASE v.t = "string" -> Quote(v.s)
          [] v.t = "number" -> v.s
          [] v.t = "null" -> "null"
          [] v.t = "undefined" -> "null"
          [] v.t = "array" ->
                IF Len(v.m) = 0 THEN "[]"
                ELSE "[" \o open
                     \o Join([n \in 1..Len(v.m) |-> Stringify(v.m[n], gap, inner)], sep)
                     \o close \o "]"
          [] v.t = "object" ->
                IF Len(kept) = 0 THEN "{}"
                ELSE "{" \o open
                     \o Join([n \in 1..Len(kept) |->
                                Quote(kept[n].k) \o colon \o Stringify(kept[n].v, gap, inner)], sep)
                     \o close \o "}"

(***************************************************************************)
(* The filesystem the tool library acts on: fs.dirs is the set of          *)
(* directories besides the working directory ".", fs.files maps each       *)
(* existing file to its bytes. Paths are relative and normalised.          *)
(***************************************************************************)
\* every path the tool calls of the model can name, in directory order
PathUniverse == <<"d", "d/f", "f">>

RECURSIVE LastSlash(_, _)
LastSlash(p, n) == IF n = 0 THEN 0 ELSE IF CharAt(p, n) = "/" THEN n ELSE LastSlash(p, n - 1)

\* path.dirname
Dirname(p) ==
    LET n == LastSlash(p, Len(p)) IN IF n = 0 THEN "." ELSE SubSeq(p, 1, n - 1)

\* entry.name
Basename(p) == SubSeq(p, LastSlash(p, Len(p)) + 1, Len(p))

\* path.join(dirPath, name)
PathJoin(d, name) == IF d = "." THEN name ELSE d \o "/" \o name

IsDir(f, p) == p = "." \/ p \in f.dirs
IsFile(f, p) == p \in DOMAIN f.files

RECURSIVE DirChain(_)
DirChain(d) == IF d = "." THEN {} ELSE {d} \cup DirChain(Dirname(d))

\* what a tool library operation did: ok and its value, or the message of
\* the Error it threw and the place that threw it ("fs": a filesystem call
\* rejected); fs is the filesystem it leaves; invoked is filled in by the
\* dispatcher
Resolved(value, f) ==
    [ok |-> TRUE, value |-> value, site |-> "", error |-> "", fs |-> f, invoked |-> <<>>]
Thrown(site, message, f) ==
    [ok |-> FALSE, value |-> Undefined, site |-> site, error |-> message, fs |-> f,
     invoked |-> <<>>]

(***************************************************************************)
(* The tool library. fault = n makes the n-th filesystem or process call   *)
(* of the operation fail for a reason outside the model (permissions, I/O, *)
(* a timeout); fault = 0 lets the filesystem decide.                       *)
(***************************************************************************)
Faults == 0..2

ReadFile(f, filePath, fault) ==
    IF fault = 1 THEN Thrown("fs", "EACCES: permission denied, open '" \o filePath \o "'", f)
    ELSE IF IsDir(f, filePath) THEN Thrown("fs", "EISDIR: illegal operation on a directory, read", f)
    ELSE IF ~IsFile(f, filePath)
         THEN Thrown("fs", "ENOENT: no such file or directory, open '" \o filePath \o "'", f)
    ELSE Resolved(Str(Utf8Decode(f.files[filePath])), f)

\* fs.mkdir(dir, { recursive: true })
Mkdir(f, dir) == [f EXCEPT !.dirs = @ \cup DirChain(dir)]

\* faulty variant: the file is opened for appending
PutFileAppending(f, filePath, content) ==
    [f EXCEPT !.files = [q \in DOMAIN @ \cup {filePath} |->
                            IF q # filePath THEN @[q]
                            ELSE IF q \in DOMAIN @ THEN @[q] \o Utf8Encode(content)
                            ELSE Utf8Encode(content)]]

\* fs.writeFile(filePath, content, "utf8") on an existing parent directory
PutFile(f, filePath, content) ==
    [f EXCEPT !.files = [q \in DOMAIN @ \cup {filePath} |->
                            IF q = filePath THEN Utf8Encode(content) ELSE @[q]]]

WriteFile(f, filePath, content, fault) ==
    LET dir == Dirname(filePath)
        made == Mkdir(f, dir)
    IN  IF fault = 1 THEN Thrown("fs", "EACCES: permission denied, mkdir '" \o dir \o "'", f)
        ELSE IF \E a \in DirChain(dir) : IsFile(f, a)
             THEN Thrown("fs", "EEXIST: file already exists, mkdir '" \o dir \o "'", f)
        ELSE IF fault = 2
             THEN Thrown("fs", "EACCES: permission denied, open '" \o filePath \o "'", made)
        ELSE IF IsDir(made, filePath)
             THEN Thrown("fs", "EISDIR: illegal operation on a directory, open '" \o filePath \o "'", made)
        ELSE Resolved(Undefined, PutFile(made, filePath, content))

\* faulty variant: the last occurrence is the one replaced
EditFileLastOccurrence(f, filePath, oldText, newText, fault) ==
    LET read == ReadFile(f, filePath, fault)
        content == read.value.s
        hits == {k \in 0..Len(content) : /\ k + Len(oldText) <= Len(content)
                                         /\ SubSeq(content, k + 1, k + Len(oldText)) = oldText}
        index == IF hits = {} THEN -1 ELSE CHOOSE k \in hits : \A j \in hits : j <= k
        updated == Slice(content, 0, index) \o newText
                   \o Slice(content, index + Len(oldText), Len(content))
    IN  IF ~read.ok THEN read
        ELSE IF index = -1 THEN Thrown("editFile", "oldText not found", f)
        ELSE IF fault = 2
             THEN Thrown("fs", "EACCES: permission denied, open '" \o filePath \o "'", f)
        ELSE Resolved(Undefined, PutFile(f, filePath, updated))

EditFile(f, filePath, oldText, newText, fault) ==
    LET read == ReadFile(f, filePath, fault)
        content == read.value.s
        index == IndexOf(content, oldText)
        updated == Slice(content, 0, index) \o newText
                   \o Slice(content, index + Len(oldText), Len(content))
    IN  IF ~read.ok THEN read
        ELSE IF index = -1 THEN Thrown("editFile", "oldText not found", f)
        ELSE IF fault = 2
             THEN Thrown("fs", "EACCES: permission denied, open '" \o filePath \o "'", f)
        ELSE Resolved(Undefined, PutFile(f, filePath, updated))

\* fs.readdir(dirPath, { withFileTypes: true })
Readdir(f, dirPath) ==
    SelectSeq(PathUniverse, LAMBDA p : (IsDir(f, p) \/ IsFile(f, p)) /\ Dirname(p) = dirPath)

ListDir(f, dirPath, fault) ==
    LET entries == Readdir(f, dirPath)
    IN  IF fault = 1 THEN Thrown("fs", "EACCES: permission denied, scandir '" \o dirPath \o "'", f)
        ELSE IF IsFile(f, dirPath)
             THEN Thrown("fs", "ENOTDIR: not a directory, scandir '" \o dirPath \o "'", f)
        ELSE IF ~IsDir(f, dirPath)
             THEN Thrown("fs", "ENOENT: no such file or directory, scandir '" \o dirPath \o "'", f)
        ELSE Resolved(Arr([n \in 1..Len(entries) |->
                            Str(IF IsDir(f, entries[n]) THEN Basename(entries[n]) \o "/"
                                ELSE Basename(entries[n]))]), f)

RECURSIVE Walk(_, _)
Walk(f, dirPath) ==
    LET entries == Readdir(f, dirPath)
        Sub(p) == IF IsDir(f, p) THEN Walk(f, p) ELSE <<PathJoin(dirPath, Basename(p))>>
        RECURSIVE Each(_)
        Each(n) == IF n > Len(entries) THEN <<>> ELSE Sub(entries[n]) \o Each(n + 1)
    IN  Each(1)

(***************************************************************************)
(* Regular expressions: the patterns of the model are literal text, so a   *)
(* match is an occurrence of the source; "(" alone is the malformed        *)
(* pattern. A regex object carries its lastIndex, which test() of a global *)
(* regex starts from and moves.                                            *)
(***************************************************************************)
RegExp(source, global, lastIndex) ==
    [t |-> "regexp", source |-> source, global |-> global, lastIndex |-> lastIndex]

Malformed(source) == IndexOf(source, "(") # -1 /\ IndexOf(source, ")") = -1

\* regex.test(line): whether it matched and the lastIndex it leaves
RegexTest(regex, line) ==
    LET start == IF regex.global THEN regex.lastIndex ELSE 0
        index == IF start > Len(line) THEN -1 ELSE IndexFrom(line, regex.source, start)
    IN  IF index = -1
        THEN [found |-> FALSE, lastIndex |-> IF regex.global THEN 0 ELSE regex.lastIndex]
        ELSE [found |-> TRUE,
              lastIndex |-> IF regex.global THEN index + Len(regex.source)
                            ELSE regex.lastIndex]

SearchMatch(file, line, text) ==
    Obj(<<Member("file", Str(file)), Member("line", Num(line)), Member("text", Str(text))>>)

\* lines.forEach((line, index) => ...), from the line at position n on
RECURSIVE SearchLines(_, _, _, _)
SearchLines(regex, file, lines, n) ==
    IF n > Len(lines) THEN <<>>
    ELSE (IF RegexTest(regex, lines[n]).found
          THEN <<SearchMatch(file, n, lines[n])>> ELSE <<>>)
         \o SearchLines([regex EXCEPT !.lastIndex = 0], file, lines, n + 1)

\* for (const file of files): a file that cannot be read is skipped, and
\* the regex is left as it was
RECURSIVE SearchFiles(_, _, _, _, _)
SearchFiles(f, regex, files, n, unreadable) ==
    IF n > Len(files) THEN <<>>
    ELSE IF n \in unreadable \/ ~IsFile(f, files[n])
         THEN SearchFiles(f, regex, files, n + 1, unreadable)
    ELSE SearchLines(regex, files[n], SplitLines(Utf8Decode(f.files[files[n]])), 1)
         \o SearchFiles(f, [regex EXCEPT !.lastIndex = 0], files, n + 1, unreadable)

\* pattern is a string value or a regex object;
\* fault 1: the root cannot be listed; fault 2: the first file cannot be read
SearchInFiles(f, pattern, dirPath, fault) ==
    IF pattern.t # "regexp" /\ Malformed(pattern.s)
    THEN Thrown("RegExp",
                "Invalid regular expression: /" \o pattern.s \o "/: Unterminated group", f)
    ELSE IF fault = 1
         THEN Thrown("fs", "EACCES: permission denied, scandir '" \o dirPath \o "'", f)
    ELSE IF IsFile(f, dirPath)
         THEN Thrown("fs", "ENOTDIR: not a directory, scandir '" \o dirPath \o "'", f)
    ELSE IF ~IsDir(f, dirPath)
         THEN Thrown("fs", "ENOENT: no such file or directory, scandir '" \o dirPath \o "'", f)
    ELSE Resolved(Arr(SearchFiles(f, IF pattern.t = "regexp" THEN pattern
                                     ELSE RegExp(pattern.s, TRUE, 0),
                                  Walk(f, dirPath), 1, IF fault = 2 THEN {1} ELSE {})), f)

\* exec(command, options): the commands of the model leave the files alone;
\* a non-zero exit and a timeout (fault 1) both reject
RunCommand(f, command, options, fault) ==
    IF fault = 1 \/ command = "exit 1" THEN Thrown("exec", "Command failed: " \o command \o "\n", f)
    ELSE Resolved(Obj(<<Member("stdout", Str(IF command = "echo hi" THEN "hi\n" ELSE "")),
                        Member("stderr", Str(""))>>), f)

(***************************************************************************)
(* The dispatcher (index.ts).                                              *)
(***************************************************************************)
\* requireString over the arguments in evaluation order: the name of the
\* first one that is not a string, "" when all are
RequireStrings(input, names) ==
    IF \A n \in 1..Len(names) : Get(input, names[n]).t = "string" THEN ""
    ELSE names[CHOOSE n \in 1..Len(names) :
                 /\ Get(input, names[n]).t # "string"
                 /\ \A k \in 1..(n - 1) : Get(input, names[k]).t = "string"]

NormalizeToolInput(input) == IF input.t \in {"object", "array"} THEN input ELSE Obj(<<>>)

Ok(r) == IF r.ok THEN Resolved(Str("ok"), r.fs) ELSE r

\* the tool library operation a call of the dispatcher invoked
Called(op, args, r) == [r EXCEPT !.invoked = <<[op |-> op, args |-> args]>>]

\* faulty variant: the arguments are looked at when the operation is back
CheckedAfterwards(input, names, f, call) ==
    IF RequireStrings(input, names) # ""
    THEN [Thrown("requireString", "Invalid " \o RequireStrings(input, names), call.fs)
            EXCEPT !.invoked = call.invoked]
    ELSE call

\* the requireString calls in the argument list of a library call: the
\* first argument that is no string throws before the operation is invoked
Checked(input, names, f, call) ==
    IF RequireStrings(input, names) # ""
    THEN Thrown("requireString", "Invalid " \o RequireStrings(input, names), f)
    ELSE call

RunTool(name, input, f, fault) ==
    LET dir == IF Get(input, "dirPath").t = "string" THEN <<Get(input, "dirPath")>> ELSE <<>>
        dirPath == IF Get(input, "dirPath").t = "string" THEN Get(input, "dirPath").s ELSE "."
        options == IF Get(input, "options").t \in {"object", "array"}
                   THEN Get(input, "options") ELSE Undefined
    IN  CASE name = "readFile" ->
                Checked(input, <<"filePath">>, f,
                        Called("readFile", <<Get(input, "filePath")>>,
                               ReadFile(f, Get(input, "filePath").s, fault)))
          [] name = "writeFile" ->
                Checked(input, <<"filePath", "content">>, f,
                        Called("writeFile", <<Get(input, "filePath"), Get(input, "content")>>,
                               Ok(WriteFile(f, Get(input, "filePath").s,
                                            Get(input, "content").s, fault))))
          [] name = "editFile" ->
                Checked(input, <<"filePath", "oldText", "newText">>, f,
                        Called("editFile", <<Get(input, "filePath"), Get(input, "oldText"),
                                             Get(input, "newText")>>,
                               Ok(EditFile(f, Get(input, "filePath").s, Get(input, "oldText").s,
                                           Get(input, "newText").s, fault))))
          [] name = "listDir" -> Called("listDir", dir, ListDir(f, dirPath, fault))
          [] name = "searchInFiles" ->
                Checked(input, <<"pattern">>, f,
                        Called("searchInFiles", <<Get(input, "pattern")>> \o dir,
                               SearchInFiles(f, Get(input, "pattern"), dirPath, fault)))
          [] name = "runCommand" ->
                Checked(input, <<"command">>, f,
                        Called("runCommand", <<Get(input, "command"), options>>,
                               RunCommand(f, Get(input, "command").s, options, fault)))
          [] OTHER -> Thrown("runTool", "Unknown tool: " \o name, f)

\* typeof result === 'string' ? result : JSON.stringify(result, null, 2)
Render(value) == IF value.t = "string" THEN value.s ELSE Stringify(value, 2, "")

(***************************************************************************)
(* Content blocks, tool results and messages.                              *)
(***************************************************************************)
TextBlock(text) == [type |-> "text", text |-> text, id |-> "", name |-> "", input |-> Null]
ToolUse(id, name, input) ==
    [type |-> "tool_use", text |-> "", id |-> id, name |-> name, input |-> input]
\* faulty variant: the result is keyed by the name of the tool
ToolResultKeyedByName(use, content) ==
    [type |-> "tool_result", tool_use_id |-> use.name, content |-> content]

\* { type: 'tool_result', tool_use_id: toolUse.id, content }
ToolResult(use, content) ==
    [type |-> "tool_result", tool_use_id |-> use.id, content |-> content]

UserPrompt(line) == [role |-> "user", text |-> line, content |-> <<>>]
AssistantTurn(blocks) == [role |-> "assistant", text |-> "", content |-> blocks]
ToolResultsTurn(results) == [role |-> "user", text |-> "", content |-> results]

\* faulty variant: nothing is pushed in the round after which no request
\* follows
PushTurnsUnlessLast(msgs, blocks, results) ==
    IF i + 1 < 6
    THEN msgs \o <<[role |-> "assistant", text |-> "", content |-> blocks],
                   [role |-> "user", text |-> "", content |-> results]>>
    ELSE msgs

\* faulty variant: the tool results are pushed before the assistant turn
PushTurnsResultsFirst(msgs, blocks, results) ==
    msgs \o <<[role |-> "user", text |-> "", content |-> results],
              [role |-> "assistant", text |-> "", content |-> blocks]>>

\* messages.push(assistant turn); messages.push(tool results turn)
PushTurns(msgs, blocks, results) ==
    msgs \o <<AssistantTurn(blocks), ToolResultsTurn(results)>>

\* response.content.filter((block) => block.type === 'tool_use')
ToolUsesOf(blocks) == Filter(blocks, LAMBDA b : b.type = "tool_use")

\* faulty variant: the text of every response of the prompt is returned
TextOfEveryResponse(blocks) ==
    LET all == [n \in 1..Len(responses) |->
                  Join([k \in 1..Len(responses[n]) |-> responses[n][k].text], "")]
    IN  Join(all, "") \o Join([k \in 1..Len(blocks) |-> blocks[k].text], "")

\* faulty variant: only the first text block is returned
TextOfFirstBlock(blocks) ==
    IF \E n \in 1..Len(blocks) : blocks[n].type = "text"
    THEN blocks[CHOOSE n \in 1..Len(blocks) :
                  /\ blocks[n].type = "text"
                  /\ \A k \in 1..(n - 1) : blocks[k].type # "text"].text
    ELSE ""

\* response.content.filter(text).map((block) => block.text).join('')
TextOf(blocks) ==
    LET texts == Filter(blocks, LAMBDA b : b.type = "text")
    IN  Join([n \in 1..Len(texts) |-> texts[n].text], "")

Sentinel == "Tool loop limit reached"

\* faulty variants: the loop bound off by one, either way
LoopContinuesInclusive(n) == n <= MaxRounds

LoopContinuesShort(n) == n < MaxRounds - 1

\* the loop condition of runWithTools
LoopContinues(n) == n < MaxRounds

\* faulty variant: the Conversation is kept from prompt to prompt
NewConversationKept(line) == Append(messages, [role |-> "user", text |-> line, content |-> <<>>])

\* const messages = [{ role: 'user', content: prompt }]
NewConversation(line) == <<UserPrompt(line)>>

\* printSeparator ("-" stands for the box-drawing character U+2500)
Separator == Repeat("-", Max(Columns, 1)) \o "\n"

\* onToolLog: the ToolLogEntry and what is written for it
LogEntry(use, content) ==
    [name |-> use.name, input |-> NormalizeToolInput(use.input), output |-> content]

LogLines(entry) ==
    <<"tool " \o entry.name \o "\n", Stringify(entry.input, 0, "") \o "\n", entry.output \o "\n">>

(***************************************************************************)
(* What the completion service and the operator may send.                  *)
(***************************************************************************)
Args1(k1, v1) == Obj(<<Member(k1, v1)>>)
Args2(k1, v1, k2, v2) == Obj(<<Member(k1, v1), Member(k2, v2)>>)
Args3(k1, v1, k2, v2, k3, v3) == Obj(<<Member(k1, v1), Member(k2, v2), Member(k3, v3)>>)

FinalResponses ==
    { <<TextBlock("All "), TextBlock("done.")>>,
      <<TextBlock("ok")>>,
      <<>> }

ToolResponses ==
    { <<TextBlock("Writing."),
        ToolUse("t1", "writeFile", Args2("filePath", Str("d/f"), "content", Str("ab")))>>,
      <<ToolUse("t1", "readFile", Args1("filePath", Str("d/f"))),
        ToolUse("t2", "editFile",
                Args3("filePath", Str("d/f"), "oldText", Str("a"), "newText", Str("b")))>>,
      <<ToolUse("t1", "listDir", Null),
        TextBlock("and"),
        ToolUse("t1", "runCommand", Args2("command", Str("echo hi"), "options", Obj(<<>>)))>>,
      <<ToolUse("t3", "searchInFiles", Args1("pattern", Str("foo")))>>,
      <<ToolUse("t1", "listDir", Args1("dirPath", Str("d"))),
        ToolUse("t2", "readFile", Args1("filePath", Num(7)))>>,
      <<ToolUse("t1", "writeFile", Args1("filePath", Str("f")))>>,
      <<ToolUse("t1", "bogus", Obj(<<>>))>>,
      <<ToolUse("t1", "runCommand", Args1("command", Str("exit 1")))>>,
      <<ToolUse("t1", "searchInFiles", Args1("pattern", Str("(")))>> }

Responses == FinalResponses \cup ToolResponses

TransportErrors ==
    {"Connection error.", "Cannot read properties of undefined (reading 'filter')"}

Inputs == {"", "  ", "fix it ", "why"}

InitialFs == [dirs |-> {}, files |-> [p \in {"f"} |-> "foo bar\nbaz\nfoofoo"]]

(***************************************************************************)
(* The state machine.                                                      *)
(***************************************************************************)
\* one invocation of a tool library operation: its arguments, the
\* filesystem it found and what it did
LibCall(op, args, before, ret) == [op |-> op, args |-> args, before |-> before, ret |-> ret]

\* the invocations behind the outcome r of a call of the dispatcher
Invocations(r, before) ==
    [n \in 1..Len(r.invoked) |-> LibCall(r.invoked[n].op, r.invoked[n].args, before, r)]

Init ==
    /\ pc = "ask"
    /\ prompts = 0
    /\ fs = InitialFs
    /\ messages = <<>>
    /\ i = 0
    /\ response = <<>>
    /\ toolUses = <<>>
    /\ toolResults = <<>>
    /\ cur = 0
    /\ requests = <<>>
    /\ responses = <<>>
    /\ dispatched = <<>>
    /\ toolLogs = <<>>
    /\ stdout = <<>>
    /\ stderr = <<>>
    /\ prompt = ""
    /\ outcome = "none"
    /\ result = ""
    /\ errorSite = ""
    /\ calls = <<>>

\* runWithTools returns answer to main, which prints it and starts over
Returns(how, answer, out) ==
    /\ pc' = "ask"
    /\ outcome' = how
    /\ result' = answer
    /\ errorSite' = ""
    /\ stdout' = Append(out, "\n" \o answer \o "\n")
    /\ stderr' = stderr

\* runWithTools rejects; main catches, reports and starts over
Rejects(how, site, message, out) ==
    /\ pc' = "ask"
    /\ outcome' = how
    /\ result' = message
    /\ errorSite' = site
    /\ stdout' = out
    /\ stderr' = Append(stderr, message \o "\n")

\* the top of the for loop with counter n and Conversation msgs
LoopTop(n, msgs, out) ==
    IF LoopContinues(n)
    THEN /\ requests' = Append(requests, msgs)
         /\ pc' = "AwaitingModel"
         /\ stdout' = out
         /\ UNCHANGED <<outcome, result, errorSite, stderr>>
    ELSE /\ requests' = requests
         /\ Returns("LimitReached", Sentinel, out)

\* main reads a blank line: continue
AskBlank(input) ==
    /\ pc = "ask"
    /\ prompts < MaxPrompts
    /\ Trim(input) = ""
    /\ prompts' = prompts + 1
    /\ stdout' = <<Separator>>
    /\ stderr' = <<>>
    /\ prompt' = ""
    /\ outcome' = "skipped"
    /\ result' = ""
    /\ errorSite' = ""
    /\ messages' = <<>>
    /\ i' = 0
    /\ response' = <<>>
    /\ toolUses' = <<>>
    /\ toolResults' = <<>>
    /\ cur' = 0
    /\ requests' = <<>>
    /\ responses' = <<>>
    /\ dispatched' = <<>>
    /\ toolLogs' = <<>>
    /\ calls' = <<>>
    /\ UNCHANGED <<pc, fs>>

\* main reads a prompt and calls runWithTools, which sends the first request
AskPrompt(input) ==
    /\ pc = "ask"
    /\ prompts < MaxPrompts
    /\ Trim(input) # ""
    /\ prompts' = prompts + 1
    /\ prompt' = input
    /\ errorSite' = ""
    /\ messages' = NewConversation(input)
    /\ i' = 0
    /\ response' = <<>>
    /\ toolUses' = <<>>
    /\ toolResults' = <<>>
    /\ cur' = 0
    /\ responses' = <<>>
    /\ dispatched' = <<>>
    /\ toolLogs' = <<>>
    /\ calls' = <<>>
    /\ IF LoopContinues(0)
       THEN /\ requests' = <<messages'>>
            /\ pc' = "AwaitingModel"
            /\ outcome' = "running"
            /\ result' = ""
            /\ stdout' = <<Separator, "\n">>
            /\ stderr' = <<>>
       ELSE /\ requests' = <<>>
            /\ pc' = "ask"
            /\ outcome' = "LimitReached"
            /\ result' = Sentinel
            /\ stdout' = <<Separator, "\n", "\n" \o Sentinel \o "\n">>
            /\ stderr' = <<>>
    /\ UNCHANGED fs

\* faulty variant: a request that fails is sent once more
RequestFailsRetried(message) ==
    /\ pc = "AwaitingModel"
    /\ IF Len(requests) = Len(responses) + 1
       THEN /\ requests' = Append(requests, messages)
            /\ UNCHANGED <<pc, outcome, result, errorSite, stdout, stderr>>
       ELSE /\ Rejects("RequestFailed", "create", message, stdout)
            /\ UNCHANGED requests
    /\ UNCHANGED <<prompts, prompt, fs, messages, i, response, toolUses, toolResults, cur,
                   responses, dispatched, toolLogs, calls>>

\* client.messages.create rejects: runWithTools rejects with it
RequestFails(message) ==
    /\ pc = "AwaitingModel"
    /\ Rejects("RequestFailed", "create", message, stdout)
    /\ UNCHANGED <<prompts, prompt, fs, messages, i, response, toolUses, toolResults, cur,
                   requests, responses, dispatched, toolLogs, calls>>

\* a response without tool_use blocks: its text is the answer
RespondFinal(blocks) ==
    /\ pc = "AwaitingModel"
    /\ Len(ToolUsesOf(blocks)) = 0
    /\ response' = blocks
    /\ responses' = Append(responses, blocks)
    /\ toolUses' = <<>>
    /\ Returns("Done", TextOf(blocks), stdout)
    /\ UNCHANGED <<prompts, prompt, fs, messages, i, toolResults, cur, requests,
                   dispatched, toolLogs, calls>>

\* faulty variant: runTool is called for every tool_use block at once
RespondToolsAllAtOnce(blocks) ==
    /\ pc = "AwaitingModel"
    /\ Len(ToolUsesOf(blocks)) > 0
    /\ response' = blocks
    /\ responses' = Append(responses, blocks)
    /\ toolUses' = ToolUsesOf(blocks)
    /\ toolResults' = <<>>
    /\ cur' = 1
    /\ dispatched' = dispatched \o toolUses'
    /\ pc' = "DispatchingTools"
    /\ UNCHANGED <<prompts, prompt, fs, messages, i, requests, toolLogs, stdout, stderr,
                   outcome, result, errorSite, calls>>

\* faulty variant: the assistant turn is pushed when the response arrives
RespondToolsPushingTurn(blocks) ==
    /\ pc = "AwaitingModel"
    /\ Len(ToolUsesOf(blocks)) > 0
    /\ response' = blocks
    /\ responses' = Append(responses, blocks)
    /\ toolUses' = ToolUsesOf(blocks)
    /\ toolResults' = <<>>
    /\ cur' = 1
    /\ dispatched' = Append(dispatched, toolUses'[1])
    /\ messages' = Append(messages, AssistantTurn(blocks))
    /\ pc' = "DispatchingTools"
    /\ UNCHANGED <<prompts, prompt, fs, i, requests, toolLogs, stdout, stderr,
                   outcome, result, errorSite, calls>>

\* a response with tool_use blocks: runTool is called for the first one
RespondTools(blocks) ==
    /\ pc = "AwaitingModel"
    /\ Len(ToolUsesOf(blocks)) > 0
    /\ response' = blocks
    /\ responses' = Append(responses, blocks)
    /\ toolUses' = ToolUsesOf(blocks)
    /\ toolResults' = <<>>
    /\ cur' = 1
    /\ dispatched' = Append(dispatched, toolUses'[1])
    /\ pc' = "DispatchingTools"
    /\ UNCHANGED <<prompts, prompt, fs, messages, i, requests, toolLogs, stdout, stderr,
                   outcome, result, errorSite, calls>>

\* the tool call in progress resolves: it is logged and its result kept;
\* then the next call starts or, after the last one, both turns are pushed
\* and the loop goes round
ToolResolves(fault) ==
    /\ pc = "DispatchingTools"
    /\ LET use == toolUses[cur]
           r == RunTool(use.name, NormalizeToolInput(use.input), fs, fault)
           content == Render(r.value)
           entry == LogEntry(use, content)
           out == stdout \o LogLines(entry)
           results == Append(toolResults, ToolResult(use, content))
           msgs == PushTurns(messages, response, results)
       IN  /\ r.ok
           /\ fs' = r.fs
           /\ calls' = calls \o Invocations(r, fs)
           /\ toolLogs' = Append(toolLogs, entry)
           /\ toolResults' = results
           /\ IF cur < Len(toolUses)
              THEN /\ cur' = cur + 1
                   /\ dispatched' = Append(dispatched, toolUses[cur + 1])
                   /\ stdout' = out
                   /\ UNCHANGED <<pc, messages, i, requests, stderr, outcome, result,
                                  errorSite>>
              ELSE /\ cur' = 0
                   /\ messages' = msgs
                   /\ i' = i + 1
                   /\ LoopTop(i + 1, msgs, out)
                   /\ UNCHANGED dispatched
    /\ UNCHANGED <<prompts, prompt, response, toolUses, responses>>

\* faulty variant: the call that rejects is logged with its message
ToolRejectsLogged(fault) ==
    /\ pc = "DispatchingTools"
    /\ LET use == toolUses[cur]
           r == RunTool(use.name, NormalizeToolInput(use.input), fs, fault)
           entry == LogEntry(use, r.error)
       IN  /\ ~r.ok
           /\ fs' = r.fs
           /\ calls' = calls \o Invocations(r, fs)
           /\ toolLogs' = Append(toolLogs, entry)
           /\ Rejects("ToolFailed", r.site, r.error, stdout \o LogLines(entry))
    /\ UNCHANGED <<prompts, prompt, messages, i, response, toolUses, toolResults, cur,
                   requests, responses, dispatched>>

\* the tool call in progress rejects: runWithTools rejects with it
ToolRejects(fault) ==
    /\ pc = "DispatchingTools"
    /\ LET use == toolUses[cur]
           r == RunTool(use.name, NormalizeToolInput(use.input), fs, fault)
       IN  /\ ~r.ok
           /\ fs' = r.fs
           /\ calls' = calls \o Invocations(r, fs)
           /\ Rejects("ToolFailed", r.site, r.error, stdout)
    /\ UNCHANGED <<prompts, prompt, messages, i, response, toolUses, toolResults, cur,
                   requests, responses, dispatched, toolLogs>>

Next ==
    \/ \E input \in Inputs : AskBlank(input)
    \/ \E input \in Inputs : AskPrompt(input)
    \/ \E message \in TransportErrors : RequestFails(message)
    \/ \E blocks \in Responses : RespondFinal(blocks)
    \/ \E blocks \in Responses : RespondTools(blocks)
    \/ \E fault \in Faults : ToolResolves(fault)
    \/ \E fault \in Faults : ToolRejects(fault)

Spec == Init /\ [][Next]_vars

(***************************************************************************)
(* The tool library on its own: a caller applies the exported operations   *)
(* of tools.ts to a filesystem, one after the other; the agent is idle.    *)
(***************************************************************************)
MaxCalls == 2       \* library operations applied before the model stops

EmptyFs == [dirs |-> {}, files |-> [p \in {} |-> ""]]

LibFilesystems ==
    { EmptyFs,
      InitialFs,
      [dirs |-> {"d"}, files |-> [p \in {"d/f", "f"} |-> IF p = "f" THEN "ab" ELSE "abab"]] }

LibPaths == {"f", "d/f"}

LibContents == {"", "ab", "a^"}

\* oldText and newText of an edit
LibEdits == {<<"ab", "b">>, <<"b", "bb">>, <<"", "^">>, <<"foo", "o">>}

\* string patterns, and regex objects with and without the global flag and
\* with a lastIndex left by an earlier use
LibPatterns ==
    {Str("foo"), Str("("), RegExp("foo", TRUE, 0), RegExp("foo", TRUE, 4),
     RegExp("foo", FALSE, 4)}

LibDirs == {".", "d"}

agent == <<pc, prompts, messages, i, response, toolUses, toolResults, cur, requests,
           responses, dispatched, toolLogs, stdout, stderr, prompt, outcome, result,
           errorSite>>

LibInit ==
    /\ pc = "ask"
    /\ prompts = 0
    /\ fs \in LibFilesystems
    /\ messages = <<>>
    /\ i = 0
    /\ response = <<>>
    /\ toolUses = <<>>
    /\ toolResults = <<>>
    /\ cur = 0
    /\ requests = <<>>
    /\ responses = <<>>
    /\ dispatched = <<>>
    /\ toolLogs = <<>>
    /\ stdout = <<>>
    /\ stderr = <<>>
    /\ prompt = ""
    /\ outcome = "none"
    /\ result = ""
    /\ errorSite = ""
    /\ calls = <<>>

\* the caller awaits the operation: ret is what it did
Applies(op, args, ret) ==
    /\ calls' = Append(calls, LibCall(op, args, fs, ret))
    /\ fs' = ret.fs
    /\ UNCHANGED agent

LibReadFile(filePath, fault) ==
    /\ Len(calls) < MaxCalls
    /\ Applies("readFile", <<Str(filePath)>>, ReadFile(fs, filePath, fault))

LibWriteFile(filePath, content, fault) ==
    /\ Len(calls) < MaxCalls
    /\ Applies("writeFile", <<Str(filePath), Str(content)>>,
               WriteFile(fs, filePath, content, fault))

LibEditFile(filePath, oldText, newText, fault) ==
    /\ Len(calls) < MaxCalls
    /\ Applies("editFile", <<Str(filePath), Str(oldText), Str(newText)>>,
               EditFile(fs, filePath, oldText, newText, fault))

LibSearchInFiles(pattern, dirPath, fault) ==
    /\ Len(calls) < MaxCalls
    /\ Applies("searchInFiles", <<pattern, Str(dirPath)>>,
               SearchInFiles(fs, pattern, dirPath, fault))

LibNext ==
    \/ \E filePath \in LibPaths, fault \in Faults : LibReadFile(filePath, fault)
    \/ \E filePath \in LibPaths, content \in LibContents, fault \in Faults :
            LibWriteFile(filePath, content, fault)
    \/ \E filePath \in LibPaths, edit \in LibEdits, fault \in Faults :
            LibEditFile(filePath, edit[1], edit[2], fault)
    \/ \E pattern \in LibPatterns, dirPath \in LibDirs, fault \in Faults :
            LibSearchInFiles(pattern, dirPath, fault)

LibSpec == LibInit /\ [][LibNext]_vars

(***************************************************************************)
(* Properties.                                                             *)
(***************************************************************************)
Ran == outcome \in {"Done", "LimitReached", "RequestFailed", "ToolFailed"}

HasToolUse(blocks) == \E n \in 1..Len(blocks) : blocks[n].type = "tool_use"

Last(seq) == seq[Len(seq)]

\* the texts of the text blocks, first to last
RECURSIVE TextsInOrder(_)
TextsInOrder(blocks) ==
    IF Len(blocks) = 0 THEN ""
    ELSE (IF Head(blocks).type = "text" THEN Head(blocks).text ELSE "")
         \o TextsInOrder(Tail(blocks))

\* C1: for one prompt, the number of completion requests issued never
\* exceeds the round maximum of 6.
C1_RequestsBounded == Len(requests) <= 6

C1_Witness == Len(requests) = 6 /\ pc = "AwaitingModel"

\* C2: when every response of a prompt carried a tool call, every request
\* was answered and every tool call resolved, runWithTools has ended in
\* LimitReached after exactly 6 completion requests, its result the fixed
\* sentinel and not the text of a response; until it ends the loop is in
\* one of its 6 rounds with a step to take, so it does end.
C2_AlwaysTools ==
    /\ outcome \in {"Done", "LimitReached"}
    /\ \A n \in 1..Len(responses) : HasToolUse(responses[n])

C2_LimitReached ==
    /\ pc = "ask" /\ C2_AlwaysTools =>
            /\ outcome = "LimitReached"
            /\ Len(requests) = 6
            /\ Len(responses) = 6
            /\ result = "Tool loop limit reached"
            /\ result # TextsInOrder(Last(responses))
            /\ Last(stdout) = "\nTool loop limit reached\n"
            /\ stderr = <<>>
    /\ pc = "AwaitingModel" =>
            i < 6 /\ Len(requests) = i + 1 /\ Len(responses) = i /\ Responses # {}
    /\ pc = "DispatchingTools" =>
            i < 6 /\ Len(requests) = i + 1 /\ Len(responses) = i + 1
            /\ cur \in 1..Len(toolUses) /\ Len(toolResults) = cur - 1

C2_Witness ==
    /\ pc = "ask"
    /\ C2_AlwaysTools
    /\ Len(requests) = 6
    /\ Len(dispatched) >= 7
    /\ "d/f" \in DOMAIN fs.files

\* C3: every tool-results turn of the Conversation holds exactly one result
\* per tool call of the assistant turn before it, in the order of the calls,
\* the n-th result carrying the identifier of the n-th call.
C3_ResultsMatchRequests ==
    \A n \in 1..Len(messages) :
        messages[n].role = "assistant" =>
            /\ n + 1 <= Len(messages)
            /\ LET uses == SelectSeq(messages[n].content, LAMBDA b : b.type = "tool_use")
                   results == messages[n + 1].content
               IN  /\ Len(uses) > 0
                   /\ Len(results) = Len(uses)
                   /\ \A k \in 1..Len(uses) :
                        /\ results[k].type = "tool_result"
                        /\ results[k].tool_use_id = uses[k].id

C3_Witness ==
    /\ Len(messages) >= 3
    /\ Len(messages[3].content) = 2
    /\ messages[3].content[1].tool_use_id = "t1"
    /\ messages[3].content[2].tool_use_id = "t2"

\* C4 (as claimed): a failure of a tool library operation (a filesystem
\* call, the edit that does not find oldText, the command) never ends the
\* loop: runWithTools does not reject with it.
C4_LibraryFailureNotFatal ==
    ~(outcome = "ToolFailed" /\ errorSite \in {"fs", "editFile", "exec"})

\* C5 (as claimed): a tool call the dispatcher rejects (unregistered name,
\* required argument absent or not a string) never makes runWithTools
\* reject.
C5_DispatcherRejectionNotFatal ==
    ~(outcome = "ToolFailed" /\ errorSite \in {"requireString", "runTool"})

\* C6: a response without tool calls ends the loop in Done in its round,
\* the result being its text blocks concatenated in order; when it is the
\* first response, one request was made, no tool dispatched and no log
\* entry emitted.
C6_FinalAnswer ==
    \A n \in 1..Len(responses) :
        ~HasToolUse(responses[n]) =>
            /\ n = Len(responses)
            /\ Len(requests) = n
            /\ pc = "ask"
            /\ outcome = "Done"
            /\ result = TextsInOrder(responses[n])
            /\ Last(stdout) = "\n" \o result \o "\n"
            /\ n = 1 => (dispatched = <<>> /\ toolLogs = <<>> /\ Len(stdout) = 3)

C6_Witness ==
    /\ outcome = "Done"
    /\ Len(responses) = 1
    /\ result = "All done."

\* C7: a failed completion request is not retried: the prompt ends with one
\* more request than responses and no tool call in progress, the failure is
\* what main writes to the error stream, and main is back at reading the
\* next prompt.
C7_RequestFailureEndsPrompt ==
    outcome = "RequestFailed" =>
        /\ pc = "ask"
        /\ Len(requests) = Len(responses) + 1
        /\ Len(dispatched) = Len(toolLogs)
        /\ stderr = <<result \o "\n">>
        /\ result \in TransportErrors
        /\ prompts < MaxPrompts => ENABLED AskPrompt("why")

C7_Witness == outcome = "RequestFailed" /\ Len(requests) = 3 /\ prompts < MaxPrompts

\* C8: every Conversation sent starts with the prompt's user turn,
\* alternates user and assistant turns and ends with a user turn; each one
\* after the first is the one before it plus an assistant turn and a
\* tool-results turn.
C8_ConversationGrows ==
    \A n \in 1..Len(requests) :
        LET sent == requests[n]
        IN  /\ Len(sent) = 2 * n - 1
            /\ sent[1].role = "user" /\ sent[1].text = prompt /\ sent[1].content = <<>>
            /\ \A k \in 1..Len(sent) :
                 sent[k].role = IF k % 2 = 1 THEN "user" ELSE "assistant"
            /\ n > 1 =>
                 /\ SubSeq(sent, 1, Len(sent) - 2) = requests[n - 1]
                 /\ sent[Len(sent) - 1].content = responses[n - 1]
                 /\ Len(Last(sent).content) > 0
                 /\ \A k \in 1..Len(Last(sent).content) :
                      Last(sent).content[k].type = "tool_result"

C8_Witness == Len(requests) = 3

\* C9: the first request of every prompt carries exactly one turn, the user
\* turn with the text of that prompt, whatever earlier prompts did.
C9_FreshConversation ==
    Len(requests) >= 1 => requests[1] = <<[role |-> "user", text |-> prompt, content |-> <<>>]>>

\* a second prompt, after a prompt whose tool calls wrote d/f
C9_Witness ==
    /\ prompts = 2
    /\ Len(requests) = 1
    /\ prompt = "why"
    /\ "d/f" \in DOMAIN fs.files

\* C10 (as claimed): when a prompt cycle is over, its output holds, after
\* the rule and the blank line, one block of three lines per dispatched
\* call, in dispatch order ("tool <name>", the argument bag, the rendered
\* result), and then the final answer if there is one.
C10_OneBlockPerDispatchedCall ==
    (pc = "ask" /\ Ran) =>
        /\ Len(stdout) = 2 + 3 * Len(dispatched)
                         + (IF outcome \in {"Done", "LimitReached"} THEN 1 ELSE 0)
        /\ \A n \in 1..Len(dispatched) :
             /\ stdout[3 * n] = "tool " \o dispatched[n].name \o "\n"
             /\ stdout[3 * n + 1]
                  = Stringify(NormalizeToolInput(dispatched[n].input), 0, "") \o "\n"
             /\ stdout[3 * n + 2] = toolLogs[n].output \o "\n"

(***************************************************************************)
(* Properties of the tool library.                                         *)
(***************************************************************************)
\* needle occurs in text at the 0-based position k
OccursAt(text, needle, k) ==
    /\ k >= 0
    /\ k + Len(needle) <= Len(text)
    /\ SubSeq(text, k + 1, k + Len(needle)) = needle

Occurs(text, needle) == \E k \in 0..Len(text) : OccursAt(text, needle, k)

\* the text a read of the file gives
TextOfFile(f, filePath) == Utf8Decode(f.files[filePath])

\* a text as it reads once written
Stored(text) == Utf8Decode(Utf8Encode(text))

\* f and g differ at most in the file filePath
SameBut(f, g, filePath) ==
    /\ f.dirs = g.dirs
    /\ DOMAIN f.files \cup {filePath} = DOMAIN g.files \cup {filePath}
    /\ \A q \in DOMAIN f.files \ {filePath} : f.files[q] = g.files[q]

SameEdit(c, e) ==
    /\ c.op = "editFile" /\ e.op = "editFile"
    /\ c.args[1] = e.args[1]
    /\ c.args[2] = e.args[2]

\* C11: every successful edit replaces the first occurrence of oldText, an
\* exact substring, and nothing else; an edit that follows a successful
\* edit of the same path with the same oldText fails with "oldText not
\* found" when oldText occurs no longer, and succeeds, on the occurrence
\* that is then the first, when it still occurs and no filesystem call fails.
C11_EditFirstOccurrence ==
    \A n \in 1..Len(calls) :
        calls[n].op = "editFile" =>
            LET c == calls[n]
                filePath == c.args[1].s
                oldText == c.args[2].s
                newText == c.args[3].s
                found == IsFile(c.before, filePath)
                         /\ Occurs(TextOfFile(c.before, filePath), oldText)
            IN  /\ c.ret.ok =>
                      /\ found
                      /\ SameBut(c.before, c.ret.fs, filePath)
                      /\ \E k \in 0..Len(TextOfFile(c.before, filePath)) :
                            /\ OccursAt(TextOfFile(c.before, filePath), oldText, k)
                            /\ \A j \in 0..(k - 1) :
                                  ~OccursAt(TextOfFile(c.before, filePath), oldText, j)
                            /\ TextOfFile(c.ret.fs, filePath)
                                 = SubSeq(TextOfFile(c.before, filePath), 1, k)
                                   \o Stored(newText)
                                   \o SubSeq(TextOfFile(c.before, filePath),
                                             k + Len(oldText) + 1,
                                             Len(TextOfFile(c.before, filePath)))
                /\ (n > 1 /\ SameEdit(calls[n - 1], c) /\ calls[n - 1].ret.ok) =>
                      /\ c.ret.site = "editFile" => ~found /\ c.ret.error = "oldText not found"
                      /\ ~found => ~c.ret.ok /\ c.ret.site \in {"editFile", "fs"}
                      /\ found => c.ret.ok \/ c.ret.site = "fs"

\* two edits of "abab" with the same oldText: the second one finds the
\* occurrence the first one left
C11_Witness ==
    /\ Len(calls) = 2
    /\ SameEdit(calls[1], calls[2])
    /\ calls[1].ret.ok /\ calls[2].ret.ok
    /\ calls[1].args[2] = Str("ab")
    /\ TextOfFile(fs, calls[2].args[1].s) = "bb"

\* a write that succeeded and, right after it, a read of the same path
\* that succeeded
WriteThenRead(w, r) ==
    /\ w.op = "writeFile" /\ w.ret.ok
    /\ r.op = "readFile" /\ r.ret.ok
    /\ r.args[1] = w.args[1]

\* no unpaired surrogate in the text
WellFormed(text) == ~Occurs(text, "^")

\* C12 as stated: a write followed by a read of the same path returns
\* exactly the written content, for every content string.
C12_WriteThenRead ==
    \A n \in 1..(Len(calls) - 1) :
        WriteThenRead(calls[n], calls[n + 1]) => calls[n + 1].ret.value = calls[n].args[2]

\* C12, amended: a write followed by a read of the same path returns the
\* written content with every unpaired surrogate replaced by U+FFFD, hence
\* exactly the written content when it holds no unpaired surrogate; this is
\* so whether or not the file and its parent directories existed before.
C12_WriteThenReadWellFormed ==
    \A n \in 1..(Len(calls) - 1) :
        WriteThenRead(calls[n], calls[n + 1]) =>
            /\ calls[n + 1].ret.value = Str(Stored(calls[n].args[2].s))
            /\ WellFormed(calls[n].args[2].s) => calls[n + 1].ret.value = calls[n].args[2]

\* "ab" is written to d/f where neither d nor d/f exists, and read back
C12_Witness ==
    /\ Len(calls) = 2
    /\ WriteThenRead(calls[1], calls[2])
    /\ calls[1].before = EmptyFs
    /\ calls[1].args = <<Str("d/f"), Str("ab")>>
    /\ calls[2].ret.value = Str("ab")

(***************************************************************************)
(* Properties of the tool loop, continued.                                 *)
(***************************************************************************)
\* the tool calls the responses up to the n-th ask for, in request order
RECURSIVE ToolUsesUpTo(_)
ToolUsesUpTo(n) ==
    IF n = 0 THEN <<>> ELSE ToolUsesUpTo(n - 1) \o ToolUsesOf(responses[n])

\* tool calls runTool was called with and that have not settled
ToolCallsInProgress ==
    Len(dispatched) - Len(toolLogs) - (IF outcome = "ToolFailed" THEN 1 ELSE 0)

\* completion requests sent and not settled
RequestsOutstanding ==
    Len(requests) - Len(responses) - (IF outcome = "RequestFailed" THEN 1 ELSE 0)

\* C13: tool calls are dispatched one at a time in request order: at most
\* one tool call is in progress, every call before it has finished, no
\* completion request is outstanding while a tool call is in progress and
\* at most one completion request is outstanding at any time.
C13_SequentialDispatch ==
    /\ ToolCallsInProgress \in {0, 1}
    /\ RequestsOutstanding \in {0, 1}
    /\ ToolCallsInProgress + RequestsOutstanding <= 1
    /\ ToolCallsInProgress = 1 <=> pc = "DispatchingTools"
    /\ RequestsOutstanding = 1 <=> pc = "AwaitingModel"
    /\ Len(dispatched) <= Len(ToolUsesUpTo(Len(responses)))
    /\ dispatched = SubSeq(ToolUsesUpTo(Len(responses)), 1, Len(dispatched))
    /\ pc = "DispatchingTools" =>
          /\ Last(dispatched) = toolUses[cur]
          /\ Len(dispatched) = Len(ToolUsesUpTo(Len(responses) - 1)) + cur

\* the second tool call of a later round is in progress
C13_Witness ==
    /\ pc = "DispatchingTools"
    /\ cur = 2
    /\ Len(responses) >= 2
    /\ Len(toolLogs) = Len(dispatched) - 1

\* C14 as stated: while the tool calls of a round are dispatched, the
\* Conversation already ends with the assistant turn of that round.
C14_AssistantTurnBeforeDispatch ==
    pc = "DispatchingTools" => Last(messages) = AssistantTurn(response)

\* C14, amended: while the tool calls of a round are dispatched, the
\* Conversation is still the one last sent and ends with a user turn; the
\* assistant turn is pushed when the last call of the round has resolved,
\* right before the tool results turn, so that both are in the Conversation
\* of the next completion request; after a failed call it is never pushed.
C14_TurnsPushedAfterDispatch ==
    /\ pc = "DispatchingTools" =>
          /\ messages = Last(requests)
          /\ Len(messages) = 2 * i + 1
          /\ Last(messages).role = "user"
          /\ \A n \in 1..Len(messages) : messages[n] # AssistantTurn(response)
             \/ \E k \in 1..(Len(responses) - 1) : responses[k] = response
    /\ (pc = "AwaitingModel" \/ outcome = "LimitReached") /\ Len(responses) > 0 =>
          /\ messages[Len(messages) - 1] = AssistantTurn(response)
          /\ Last(messages) = ToolResultsTurn(toolResults)
          /\ pc = "AwaitingModel" => Last(requests) = messages
    /\ outcome = "ToolFailed" =>
          /\ Len(messages) = 2 * i + 1
          /\ Last(messages).role = "user"

\* the first call of the second round is in progress: the Conversation ends
\* with the tool results of the first round
C14_Witness ==
    /\ pc = "DispatchingTools"
    /\ i = 1
    /\ Len(messages) = 3
    /\ messages[2] = AssistantTurn(responses[1])
    /\ messages[3].role = "user"
    /\ responses[1] # response

\* C15: what runWithTools returns is the sentinel or the text of the one
\* response that asks for no tool call, the last one; the text blocks of a
\* response that asks for tool calls are in no returned result.
C15_OnlyLastResponseText ==
    outcome \in {"Done", "LimitReached"} =>
        /\ \/ result = Sentinel
           \/ /\ Len(responses) > 0
              /\ ~HasToolUse(Last(responses))
              /\ result = TextsInOrder(Last(responses))
        /\ outcome = "LimitReached" => result = Sentinel
        /\ outcome = "Done" => \A n \in 1..(Len(responses) - 1) : HasToolUse(responses[n])
        /\ \A n \in 1..Len(responses) : \A k \in 1..Len(responses[n]) :
              (HasToolUse(responses[n]) /\ responses[n][k].type = "text")
                  => ~Occurs(result, responses[n][k].text)

\* "Writing." came with a tool call in the first round; the answer is the
\* text of the last response alone
C15_Witness ==
    /\ outcome = "Done"
    /\ Len(responses) >= 2
    /\ responses[1][1] = TextBlock("Writing.")
    /\ result = "All done."

(***************************************************************************)
(* Properties of the tool library, continued.                              *)
(***************************************************************************)
\* C16: an edit or a write that fails leaves the filesystem, the contents
\* of the files and the set of directories, as it was before the call.
C16_FailureLeavesFilesystem ==
    \A n \in 1..Len(calls) :
        (calls[n].op \in {"editFile", "writeFile"} /\ ~calls[n].ret.ok)
            => calls[n].ret.fs = calls[n].before

\* the text a pattern matches
SourceOf(pattern) == IF pattern.t = "regexp" THEN pattern.source ELSE pattern.s

\* one entry for every line of the file, from the n-th on, in which the
\* source occurs
RECURSIVE MatchingLines(_, _, _, _)
MatchingLines(source, file, lines, n) ==
    IF n > Len(lines) THEN <<>>
    ELSE (IF Occurs(lines[n], source) THEN <<SearchMatch(file, n, lines[n])>> ELSE <<>>)
         \o MatchingLines(source, file, lines, n + 1)

\* the same over the files from the n-th on
RECURSIVE MatchingLinesOfFiles(_, _, _, _)
MatchingLinesOfFiles(f, source, files, n) ==
    IF n > Len(files) THEN <<>>
    ELSE MatchingLines(source, files[n], SplitLines(TextOfFile(f, files[n])), 1)
         \o MatchingLinesOfFiles(f, source, files, n + 1)

\* C17: a search reports every line in which the pattern matches exactly
\* once, with its 1-based line number and its text, and no other line, for
\* every pattern, string or regex object, whatever its flags and its
\* lastIndex: the result lists the matching lines of every file under the
\* root, or of every file but the first when that one cannot be read.
C17_EveryMatchingLineOnce ==
    \A n \in 1..Len(calls) :
        (calls[n].op = "searchInFiles" /\ calls[n].ret.ok) =>
            LET c == calls[n]
                files == Walk(c.before, c.args[2].s)
            IN  c.ret.value \in
                    { Arr(MatchingLinesOfFiles(c.before, SourceOf(c.args[1]), files, 1)),
                      Arr(MatchingLinesOfFiles(c.before, SourceOf(c.args[1]), files, 2)) }

(***************************************************************************)
(* Properties of the tool loop, continued.                                 *)
(***************************************************************************)
\* C18: when the k-th tool call of a round fails, the calls before it have
\* been executed and logged and what they did to the filesystem remains,
\* the k-th call is not logged, the calls after it are never dispatched, no
\* further completion request is sent and runWithTools rejects with the
\* failure, which main reports.
C18_FailedCallEndsPrompt ==
    outcome = "ToolFailed" =>
        /\ pc = "ask"
        /\ cur \in 1..Len(toolUses)
        /\ Last(dispatched) = toolUses[cur]
        /\ Len(dispatched) = Len(ToolUsesUpTo(Len(responses) - 1)) + cur
        /\ Len(toolResults) = cur - 1
        /\ \A n \in 1..(cur - 1) : toolResults[n].tool_use_id = toolUses[n].id
        /\ Len(toolLogs) = Len(dispatched) - 1
        /\ \A n \in 1..Len(toolLogs) :
              /\ toolLogs[n].name = dispatched[n].name
              /\ calls[n].ret.ok
              /\ calls[n].op = dispatched[n].name
        /\ Len(calls) \in {Len(toolLogs), Len(toolLogs) + 1}
        /\ \A n \in 1..(Len(calls) - 1) : calls[n + 1].before = calls[n].ret.fs
        /\ Len(calls) > 0 => fs = Last(calls).ret.fs
        /\ Len(calls) = Len(dispatched) => ~Last(calls).ret.ok
        /\ Len(requests) = Len(responses)
        /\ Len(messages) = 2 * i + 1
        /\ errorSite # ""
        /\ stderr = <<result \o "\n">>

\* the second call of a round is the one that failed, after a round that
\* wrote a file
C18_Witness ==
    /\ outcome = "ToolFailed"
    /\ cur = 2
    /\ Len(toolResults) = 1
    /\ Len(toolLogs) >= 2
    /\ \E n \in 1..Len(calls) : calls[n].op = "writeFile" /\ calls[n].ret.fs # calls[n].before

\* C19: when the loop ends at the round limit, every tool call of the 6th
\* response has been dispatched, has acted on the filesystem and is logged,
\* and the assistant turn and the tool results turn of that round are in
\* the Conversation; that Conversation is never sent: the 6 requests went
\* out before.
C19_LastResultsNeverSent ==
    outcome = "LimitReached" =>
        /\ result = Sentinel
        /\ Len(responses) = 6
        /\ Len(requests) = 6
        /\ Len(dispatched) = Len(ToolUsesUpTo(6))
        /\ Len(toolLogs) = Len(dispatched)
        /\ Len(calls) = Len(dispatched)
        /\ \A n \in 1..Len(calls) : calls[n].ret.ok /\ calls[n].op = dispatched[n].name
        /\ fs = Last(calls).ret.fs
        /\ Len(toolResults) = Len(ToolUsesOf(responses[6]))
        /\ \A n \in 1..Len(toolResults) :
              /\ toolResults[n].tool_use_id = ToolUsesOf(responses[6])[n].id
              /\ toolResults[n].content
                   = toolLogs[Len(toolLogs) - Len(toolResults) + n].output
        /\ Len(messages) = 13
        /\ messages[12] = AssistantTurn(responses[6])
        /\ messages[13] = ToolResultsTurn(toolResults)
        /\ Last(requests) = SubSeq(messages, 1, 11)
        /\ \A n \in 1..Len(requests) : requests[n] # messages

\* the 6th response asked for two tool calls; both results are in the
\* last turn of the Conversation
C19_Witness ==
    /\ outcome = "LimitReached"
    /\ Len(ToolUsesOf(responses[6])) = 2
    /\ Len(Last(messages).content) = 2
    /\ Len(requests) = 6

\* the arguments a tool must be given as strings
RequiredOf(name) ==
    CASE name = "readFile" -> {"filePath"}
      [] name = "writeFile" -> {"filePath", "content"}
      [] name = "editFile" -> {"filePath", "oldText", "newText"}
      [] name = "searchInFiles" -> {"pattern"}
      [] name = "runCommand" -> {"command"}
      [] OTHER -> {}

\* the call lacks a required argument or gives one that is no string
Lacking(use) ==
    \E key \in RequiredOf(use.name) : Get(NormalizeToolInput(use.input), key).t # "string"

\* C20: a dispatched call that lacks a required argument, or gives one that
\* is no string, fails before any tool library operation is invoked: the
\* step that settles it invokes none, leaves the filesystem as it is, logs
\* nothing and ends the prompt with the validation error.
C20_ValidationBeforeInvocation ==
    [][(pc = "DispatchingTools" /\ Lacking(toolUses[cur])) =>
          /\ calls' = calls
          /\ fs' = fs
          /\ toolLogs' = toolLogs
          /\ outcome' = "ToolFailed"
          /\ errorSite' = "requireString"]_vars

\* writeFile was dispatched without content: nothing was invoked for it and
\* the file it names is as it was
C20_Witness ==
    /\ outcome = "ToolFailed"
    /\ errorSite = "requireString"
    /\ result = "Invalid content"
    /\ toolUses[cur].name = "writeFile"
    /\ Len(calls) = Len(dispatched) - 1
    /\ TextOfFile(fs, "f") = "foo bar\nbaz\nfoofoo"

====
